---- MODULE Spec2Model ----
(***************************************************************************)
(* Response lifecycle and batch-readiness engine of the 360 survey         *)
(* backend (src/back/frontend_api.py, src/back/summaries_api.py).          *)
(*                                                                         *)
(* Every HTTP handler is a process: a request slot with a program counter  *)
(* that moves from one storage round trip (an `await db...`) to the next.  *)
(* Each request owns its session, so what it has read stays in its locals  *)
(* while other requests commit.  The database runs at READ COMMITTED: a    *)
(* statement sees every row committed before it, and a commit is atomic.   *)
(***************************************************************************)
EXTENDS Integers, Sequences, FiniteSets, TLC

\* ------------------------------------------------------------------ bounds
NumRespondents == 2     \* reviewers of the one initiated batch
NumRequests == 3        \* HTTP requests issued in one behaviour
Deadline == 0           \* deadline of the batch and of every survey
MaxClock == 1           \* the wall clock runs 0..MaxClock

\* --------------------------------------------------- rows made by initiation
\* initiate_survey: one batch, one personal survey per reviewer, one link
\* token per survey.  One more survey stands outside the batch.
BatchId == 1
BatchIds == {BatchId}
SurveyIds == 1..(NumRespondents + 1)
Tokens == SurveyIds
MissingToken == 0
UnknownToken == NumRespondents + 2
TokenInputs == Tokens \cup {MissingToken, UnknownToken}

SurveyBatchOf(s) == IF s <= NumRespondents THEN BatchId ELSE 0
SurveyRespondent(s) == IF s <= NumRespondents THEN s ELSE 1
SurveyDeadline(s) == Deadline
ExpectedRespondents(b) == NumRespondents
BatchDeadline(b) == Deadline
BatchSurveys(b) == {s \in SurveyIds : SurveyBatchOf(s) = b}

LinkSurvey(t) == t
LinkRespondent(t) == SurveyRespondent(t)

\* ------------------------------------------------------------ answer values
\* A JSON value of an answers map, tagged by its Python type.
Null == [kind |-> "null"]
IntV(n) == [kind |-> "int", num |-> n]
StrV(s) == [kind |-> "str", text |-> s]
\* JSON true / false arrive as Python bool, a subclass of int: True is 1
BoolV(b) == [kind |-> "bool", num |-> IF b THEN 1 ELSE 0]
\* isinstance(val, int)
IsInstanceInt(val) == val.kind \in {"int", "bool"}
Absent == [kind |-> "absent"]    \* the key is not in the dict

\* ---------------------------------------------------------- question library
DefaultMin == 1
DefaultMax == 10
\* one field of a question's answer_fields JSON: not present, present and
\* accepted by int(), or present and int() raises
Unset == [st |-> "unset", num |-> 0]
Num(n) == [st |-> "num", num |-> n]
Bad == [st |-> "bad", num |-> 0]
NoMeta == [min |-> Unset, max |-> Unset, minLength |-> Unset]
\* question rows joined to their survey_question rows: qtype 1 is a rating,
\* anything else a text question; assigned: the surveys that carry it.
\* The rows initiation copies to every survey:
Questions ==
  <<[qid |-> 1, qtype |-> 1, optional |-> FALSE, afields |-> NoMeta, assigned |-> SurveyIds],
    [qid |-> 2, qtype |-> 2, optional |-> TRUE,
     afields |-> [min |-> Unset, max |-> Unset, minLength |-> Num(5)], assigned |-> SurveyIds]>>

VARIABLE library   \* the question library, rows in storage order

BlockId(qid) == "q" \o ToString(qid)

\* the try block of _build_blocks: the fields are parsed in order, and the
\* first one that raises leaves the later ones at their defaults
ParseMeta(m) ==
  LET minOk == m.min.st # "bad"
      maxOk == minOk /\ m.max.st # "bad"
      lenOk == maxOk /\ m.minLength.st # "bad"
  IN [min |-> IF minOk /\ m.min.st = "num" THEN m.min.num ELSE DefaultMin,
      max |-> IF maxOk /\ m.max.st = "num" THEN m.max.num ELSE DefaultMax,
      minLength |-> IF lenOk /\ m.minLength.st = "num" THEN m.minLength.num ELSE -1]

\* .where(SurveyQuestion.survey_id == survey_id)
AssignedRows(rows, s) == SelectSeq(rows, LAMBDA q : s \in q.assigned)

\* .order_by(Question.id): ids are a primary key, pairwise distinct
InStorageOrder(rows) == rows
OrderById(rows) ==
  [i \in 1..Len(rows) |->
     rows[CHOOSE j \in 1..Len(rows) :
            Cardinality({k \in 1..Len(rows) : rows[k].qid <= rows[j].qid}) = i]]

\* _build_blocks: one block per question of the survey, by ascending id
BuildBlocks(s) ==
  [i \in 1..Len(AssignedRows(library, s)) |->
     LET q == OrderById(AssignedRows(library, s))[i]
         c == ParseMeta(q.afields)
     IN IF q.qtype = 1
        THEN [id |-> BlockId(q.qid), type |-> "rating", optional |-> q.optional,
              min |-> c.min, max |-> c.max, minLength |-> -1]
        ELSE [id |-> BlockId(q.qid), type |-> "text", optional |-> q.optional,
              min |-> DefaultMin, max |-> DefaultMax, minLength |-> c.minLength]]

BlockIdsOf(blocks) == {blocks[i].id : i \in 1..Len(blocks)}
BlockById(blocks, bid) == blocks[CHOOSE i \in 1..Len(blocks) : blocks[i].id = bid]

\* keys a request body may carry: the block ids and one id outside the schema
Keys == {BlockId(Questions[i].qid) : i \in 1..Len(Questions)} \cup {"q9"}
EmptyMap == [k \in Keys |-> Absent]
KeysOf(m) == {k \in Keys : m[k] # Absent}

\* one (key, value) pair of _validate_answers_against_blocks
ValueRejected(b, val) ==
  IF b.type = "rating"
  THEN \/ (val = Null /\ ~b.optional)
       \/ (val # Null /\ ~IsInstanceInt(val))
       \/ (val # Null /\ IsInstanceInt(val) /\ ~(b.min <= val.num /\ val.num <= b.max))
  ELSE IF b.type = "text"
  THEN \/ (val = Null /\ ~b.optional)
       \/ (val # Null /\ val.kind # "str")
       \/ (val # Null /\ val.kind = "str" /\ b.minLength # -1
             /\ Len(val.text) < b.minLength)
  ELSE val # Null

\* _validate_answers_against_blocks: the keys that raise 422
RejectedKeysAmongKnown(answers, blocks) ==
  {k \in KeysOf(answers) \cap BlockIdsOf(blocks) :
     ValueRejected(BlockById(blocks, k), answers[k])}
RejectedKeys(answers, blocks) ==
  {k \in KeysOf(answers) :
     \/ k \notin BlockIdsOf(blocks)
     \/ (k \in BlockIdsOf(blocks) /\ ValueRejected(BlockById(blocks, k), answers[k]))}

ValidationFailsOnFirstBlock(answers, blocks) == blocks[1].id \in RejectedKeys(answers, blocks)
ValidationFails(answers, blocks) == RejectedKeys(answers, blocks) # {}

\* request bodies tried by the clients
Body(v1, v2, v9) == [k \in Keys |-> IF k = "q1" THEN v1 ELSE IF k = "q2" THEN v2 ELSE v9]
\* answers of a Create: a rating, and three bodies that validation rejects
CreateBodies ==
  { Body(IntV(7), Absent, Absent),
    Body(Null, Absent, Absent),
    Body(IntV(11), Absent, Absent),
    Body(IntV(7), Absent, IntV(1)) }
\* answersDelta of an Update: each key alone, a cleared optional answer, and
\* three deltas that validation rejects
UpdateBodies ==
  { Body(IntV(3), Absent, Absent),
    Body(Absent, StrV("great job"), Absent),
    Body(Absent, Null, Absent),
    Body(IntV(3), StrV("ok"), Absent),
    Body(Null, Absent, Absent),
    Body(Absent, Absent, IntV(1)) }
\* the one body of the requests that only fill a batch
PlainBodies == { Body(IntV(7), Absent, Absent) }

\* the one delta of the requests that only exercise the gates
PlainDeltas == { Body(IntV(3), Absent, Absent) }
\* bodies that leave the required rating out, clear it, or give it
RequiredBodies ==
  { Body(Absent, Absent, Absent),
    Body(Absent, StrV("great job"), Absent),
    Body(Null, Absent, Absent),
    Body(IntV(7), Absent, Absent) }
RequiredDeltas ==
  { Body(Null, Absent, Absent),
    Body(Absent, Null, Absent),
    Body(IntV(3), Absent, Absent) }
\* values of either JSON type for a rating, and for a text with minLength 5
TypedBodies ==
  { Body(IntV(7), Absent, Absent),
    Body(BoolV(TRUE), Absent, Absent),
    Body(StrV("7"), Absent, Absent) }
TypedDeltas ==
  { Body(Absent, StrV("great job"), Absent),
    Body(Absent, StrV("ok"), Absent),
    Body(Absent, IntV(3), Absent) }

\* answers the aggregation has to classify: digits and blanks given as
\* text, and a boolean given as a rating
AggregateBodies ==
  { Body(IntV(7), StrV("     "), Absent),
    Body(BoolV(TRUE), StrV("12345"), Absent) }

\* "srv_<n>" / "rsp_<n>" path parameters: n, or 0 when int() raises
BadId == 0
SurveyIdInputs == SurveyIds \cup {BadId}

VARIABLES
  now,          \* the wall clock read by _now_utc / _now
  links,        \* survey_link_token rows, by token
  responses,    \* survey_response rows; the index is the autoincrement id
  summaries,    \* review_summary rows
  nextSummaryId,\* review_summary id sequence
  req           \* the requests: program counter and locals of each handler

vars == <<now, links, responses, summaries, nextSummaryId, req, library>>

Requests == 1..NumRequests

QuestionIds == {Questions[i].qid : i \in 1..Len(Questions)}
NoStats == [q \in QuestionIds |-> [n |-> -1, sample |-> FALSE]]

NoProg == [expected |-> 0, received |-> 0, allResponded |-> FALSE,
           deadlinePassed |-> FALSE, ready |-> FALSE]

\* a request slot not yet used, and the cleared locals of a finished one
NoReq ==
  [op |-> "none", pc |-> "idle", status |-> 0, tok |-> 0, sid |-> 0, rid |-> 0,
   body |-> EmptyMap, now |-> -1, snapV |-> 0, snapA |-> EmptyMap, snapU |-> -1,
   version |-> 0, failed |-> FALSE, prog |-> NoProg, bid |-> 0, sumId |-> 0,
   stats |-> NoStats, loaded |-> "none", blocks |-> <<>>]

Started(r) == req[r].pc # "idle"
Done(r) == req[r].pc = "done"
\* requests arrive one after another; slot r is the r-th to arrive
MayStart(r) == req[r].pc = "idle" /\ \A q \in Requests : q < r => Started(q)

\* a request answered with status st; sid and rid are the rows it had
\* resolved by then (0: none)
Answered(op, st, sid, rid) == [NoReq EXCEPT !.op = op, !.pc = "done", !.status = st, !.sid = sid, !.rid = rid]
\* a request refused by the token gate keeps the token that was refused, one
\* refused by validation the body
Refused(a, tok, body) ==
  [a EXCEPT !.tok = IF a.status = 401 THEN tok ELSE a.tok,
            !.body = IF a.status = 422 THEN body ELSE a.body]
Finish(r, op, st) == req' = [req EXCEPT ![r] = Answered(op, st, 0, 0)]

Init ==
  /\ now = 0
  /\ links = [t \in Tokens |-> [is_revoked |-> FALSE, last_access_at |-> -1]]
  /\ responses = <<>>
  /\ summaries = {}
  /\ nextSummaryId = 1
  /\ req = [r \in Requests |-> NoReq]
  /\ library = Questions

Tick ==
  /\ now < MaxClock
  /\ now' = now + 1
  /\ UNCHANGED <<links, responses, summaries, nextSummaryId, req, library>>

\* ------------------------------------------------------------- Access Gate
\* get_link_or_401
LinkRejectedWhenUnknown(tok) == tok \notin Tokens
LinkRejectedAfterDeadline(tok) ==
  tok \notin Tokens \/ links[tok].is_revoked \/ now > SurveyDeadline(LinkSurvey(tok))
LinkRejected(tok) == tok \notin Tokens \/ links[tok].is_revoked

\* ---------------------------------------------------------- Response Store
ResponseIds == DOMAIN responses
ResponsesOf(s, u) == {i \in ResponseIds : responses[i].survey_id = s /\ responses[i].respondent_user_id = u}
BatchResponses(b) == {i \in ResponseIds : SurveyBatchOf(responses[i].survey_id) = b}

\* uq_response_unique_per_respondent
UniqueViolationOff(s, u) == FALSE
UniqueViolation(s, u) == ResponsesOf(s, u) # {}

\* create_response up to validation: the status raised, 0 when none is
CreateDeadlineOpenBefore(t, d) == t < d
CreateDeadlineOpen(t, d) == t <= d
CreateGateAnySurvey(tok, sidIn, body, t) ==
  IF LinkRejected(tok) THEN 401
  ELSE IF sidIn = BadId THEN 400
  ELSE IF ~CreateDeadlineOpen(t, SurveyDeadline(sidIn)) THEN 410
  ELSE IF ValidationFails(body, BuildBlocks(sidIn)) THEN 422
  ELSE 0
CreateGate(tok, sidIn, body, t) ==
  IF LinkRejected(tok) THEN 401
  ELSE IF sidIn = BadId THEN 400
  ELSE IF LinkSurvey(tok) # sidIn THEN 403
  ELSE IF ~CreateDeadlineOpen(t, SurveyDeadline(sidIn)) THEN 410
  ELSE IF ValidationFails(body, BuildBlocks(sidIn)) THEN 422
  ELSE 0

CreateStart(r, bodies) ==
  /\ MayStart(r)
  /\ \E tok \in TokenInputs, sidIn \in SurveyIdInputs, body \in bodies :
       LET st == CreateGate(tok, sidIn, body, now) IN
       IF st # 0
       THEN req' = [req EXCEPT ![r] = Refused(Answered("create", st, IF st \in {410, 422} THEN sidIn ELSE 0, 0), tok, body)]
       ELSE req' = [req EXCEPT ![r] = [NoReq EXCEPT !.op = "create", !.pc = "c_check",
                      !.tok = tok, !.sid = sidIn, !.body = body, !.now = now]]
  /\ UNCHANGED <<now, links, responses, summaries, nextSummaryId, library>>

\* existing = await db.scalar(select(SurveyResponse)...); if existing: 409
CreateConflictOff(s, u) == FALSE
CreateConflict(s, u) == ResponsesOf(s, u) # {}

CreateCheck(r) ==
  /\ req[r].pc = "c_check"
  /\ IF CreateConflict(req[r].sid, LinkRespondent(req[r].tok))
     THEN req' = [req EXCEPT ![r] = Answered("create", 409, req[r].sid, 0)]
     ELSE req' = [req EXCEPT ![r].pc = "c_commit"]
  /\ UNCHANGED <<now, links, responses, summaries, nextSummaryId, library>>

NewResponseFinalized(s, u, body, t) ==
  [survey_id |-> s, respondent_user_id |-> u, version |-> 1, answers |-> body,
   submitted_at |-> t, updated_at |-> t, finalized |-> TRUE]
NewResponse(s, u, body, t) ==
  [survey_id |-> s, respondent_user_id |-> u, version |-> 1, answers |-> body,
   submitted_at |-> t, updated_at |-> t, finalized |-> FALSE]

\* what a Create that got past its commit keeps: the row id and the version
\* it reports (rsp.version as refreshed right after the commit)
Created(r, rid) == [NoReq EXCEPT !.op = "create", !.sid = req[r].sid, !.rid = rid, !.version = 1]
CreateDoneSurfacing(c, failed) ==
  [c EXCEPT !.pc = "done", !.status = IF failed THEN 500 ELSE 201, !.failed = failed, !.now = -1]
CreateDone(c, failed) == [c EXCEPT !.pc = "done", !.status = 201, !.failed = failed, !.now = -1]

\* db.add(rsp); await db.commit(); await db.refresh(rsp); a survey without a
\* batch skips the bookkeeping
CreateCommitRechecking(r) ==
  /\ req[r].pc = "c_commit"
  /\ LET s == req[r].sid
         u == LinkRespondent(req[r].tok)
         c == Created(r, Len(responses) + 1)
     IN IF now > SurveyDeadline(s)
        THEN /\ req' = [req EXCEPT ![r] = Answered("create", 410, s, 0)]
             /\ UNCHANGED responses
        ELSE IF UniqueViolation(s, u)
        THEN /\ req' = [req EXCEPT ![r] = Answered("create", 500, s, 0)]
             /\ UNCHANGED responses
        ELSE /\ responses' = Append(responses, NewResponse(s, u, req[r].body, req[r].now))
             /\ req' = [req EXCEPT ![r] =
                  IF SurveyBatchOf(s) # 0 THEN [c EXCEPT !.pc = "c_count"]
                  ELSE CreateDone(c, FALSE)]
  /\ UNCHANGED <<now, links, summaries, nextSummaryId, library>>
CreateCommit(r) ==
  /\ req[r].pc = "c_commit"
  /\ LET s == req[r].sid
         u == LinkRespondent(req[r].tok)
         c == Created(r, Len(responses) + 1)
     IN IF UniqueViolation(s, u)
        THEN /\ req' = [req EXCEPT ![r] = Answered("create", 500, s, 0)]
             /\ UNCHANGED responses
        ELSE /\ responses' = Append(responses, NewResponse(s, u, req[r].body, req[r].now))
             /\ req' = [req EXCEPT ![r] =
                  IF SurveyBatchOf(s) # 0 THEN [c EXCEPT !.pc = "c_count"]
                  ELSE CreateDone(c, FALSE)]
  /\ UNCHANGED <<now, links, summaries, nextSummaryId, library>>

\* ------------------------------------------------------------ Batch Tracker
\* the ready test inlined in create_response
CreateReadyLate(responded, expected, t, deadline) == responded > expected \/ t > deadline
CreateReady(responded, expected, t, deadline) == responded >= expected \/ t > deadline

\* the rows the count of create_response sees: it runs after the commit
\* of its own row
CountedBeforeOwn(r, b) == BatchResponses(b) \ {req[r].rid}
CountedResponses(r, b) == BatchResponses(b)

\* now2 = _now_utc(); expected, responded, deadline = await db.scalar(...).
\* Any of the reads may raise; the except clause swallows it.
CreateCount(r) ==
  /\ req[r].pc = "c_count"
  /\ \E fail \in BOOLEAN :
       LET b == SurveyBatchOf(req[r].sid)
           responded == Cardinality(CountedResponses(r, b))
       IN req' = [req EXCEPT ![r] =
            IF fail THEN CreateDone(req[r], TRUE)
            ELSE IF CreateReady(responded, ExpectedRespondents(b), now, BatchDeadline(b))
            THEN [req[r] EXCEPT !.pc = "c_exists", !.now = now]
            ELSE CreateDone(req[r], FALSE)]
  /\ UNCHANGED <<now, links, responses, summaries, nextSummaryId, library>>

SummariesOf(b) == {x \in summaries : x.batch_id = b}

\* exists = await db.scalar(select(func.count())...ReviewSummary...)
CreateExists(r) ==
  /\ req[r].pc = "c_exists"
  /\ \E fail \in BOOLEAN :
       req' = [req EXCEPT ![r] =
            IF fail THEN CreateDone(req[r], TRUE)
            ELSE IF SummariesOf(SurveyBatchOf(req[r].sid)) # {}
            THEN CreateDone(req[r], FALSE)
            ELSE [req[r] EXCEPT !.pc = "c_insert"]]
  /\ UNCHANGED <<now, links, responses, summaries, nextSummaryId, library>>

\* the review_summary table carries no uniqueness constraint on batch_id
SummaryUniqueViolation(b) == FALSE

NewSummary(id, b, t) ==
  [id |-> id, batch_id |-> b, status |-> "queued", summary_text |-> "none",
   stats |-> NoStats, error |-> "none", created_at |-> t, updated_at |-> t,
   started_at |-> -1, completed_at |-> -1]

\* db.add(ReviewSummary(...)); await db.commit()
CreateInsert(r) ==
  /\ req[r].pc = "c_insert"
  /\ \E fail \in BOOLEAN :
       LET b == SurveyBatchOf(req[r].sid) IN
       IF fail \/ SummaryUniqueViolation(b)
       THEN /\ req' = [req EXCEPT ![r] = CreateDone(req[r], TRUE)]
            /\ UNCHANGED <<summaries, nextSummaryId>>
       ELSE /\ summaries' = summaries \cup {NewSummary(nextSummaryId, b, req[r].now)}
            /\ nextSummaryId' = nextSummaryId + 1
            /\ req' = [req EXCEPT ![r] = CreateDone(req[r], FALSE)]
  /\ UNCHANGED <<now, links, responses, library>>

Create(r, bodies) ==
  \/ CreateStart(r, bodies)
  \/ CreateCheck(r)
  \/ CreateCommit(r)
  \/ CreateCount(r)
  \/ CreateExists(r)
  \/ CreateInsert(r)

\* update_response up to validation, against the row it selected (rid = 0:
\* no row): the status raised, 0 when none is
UpdateLockedByFlagOnly(t, deadline, finalized) == finalized
UpdateLocked(t, deadline, finalized) == t > deadline \/ finalized
UpdateTargetById(tok, sidIn, ridIn) == {i \in ResponseIds : i = ridIn}
UpdateTarget(tok, sidIn, ridIn) ==
  {i \in ResponsesOf(sidIn, LinkRespondent(tok)) : i = ridIn}
UpdateGate(tok, sidIn, ridIn, body, t) ==
  IF LinkRejected(tok) THEN 401
  ELSE IF sidIn = BadId \/ ridIn = BadId THEN 400
  ELSE IF LinkSurvey(tok) # sidIn THEN 403
  ELSE IF UpdateTarget(tok, sidIn, ridIn) = {} THEN 404
  ELSE IF UpdateLocked(t, SurveyDeadline(sidIn), responses[ridIn].finalized) THEN 409
  ELSE IF ValidationFails(body, BuildBlocks(sidIn)) THEN 422
  ELSE 0

ResponseIdInputs == 0..NumRequests

\* the gate, rsp = await db.scalar(select(SurveyResponse)...), the lock test
\* and validation; an admitted request keeps the row as it read it
UpdateStart(r, bodies) ==
  /\ MayStart(r)
  /\ \E tok \in TokenInputs, sidIn \in SurveyIdInputs, ridIn \in ResponseIdInputs, body \in bodies :
       LET st == UpdateGate(tok, sidIn, ridIn, body, now) IN
       IF st # 0
       THEN req' = [req EXCEPT ![r] = Refused(Answered("update", st,
                      IF st \in {404, 409, 422} THEN sidIn ELSE 0,
                      IF st \in {409, 422} THEN ridIn ELSE 0), tok, body)]
       ELSE req' = [req EXCEPT ![r] = [NoReq EXCEPT !.op = "update", !.pc = "u_commit",
                      !.sid = sidIn, !.rid = ridIn, !.body = body, !.now = now,
                      !.snapV = responses[ridIn].version,
                      !.snapA = responses[ridIn].answers,
                      !.snapU = responses[ridIn].updated_at]]
  /\ UNCHANGED <<now, links, responses, summaries, nextSummaryId, library>>

\* merged = dict(rsp.answers); merged[k] = v for every key of the delta
Merge(answers, delta) == [k \in Keys |-> IF delta[k] # Absent THEN delta[k] ELSE answers[k]]

\* the version an Update writes
BumpedVersion(r, row) == req[r].snapV + 1

\* rsp.answers = merged; rsp.version = ...; rsp.updated_at = now: the UPDATE
\* sets the attributes whose value differs from the one the session loaded,
\* computed from the loaded row
UpdatedRowFinalizing(r, row) ==
  LET merged == Merge(req[r].snapA, req[r].body) IN
  [row EXCEPT
     !.answers = IF merged # req[r].snapA THEN merged ELSE row.answers,
     !.version = BumpedVersion(r, row),
     !.updated_at = IF req[r].now # req[r].snapU THEN req[r].now ELSE row.updated_at,
     !.finalized = TRUE]
UpdatedRow(r, row) ==
  LET merged == Merge(req[r].snapA, req[r].body) IN
  [row EXCEPT
     !.answers = IF merged # req[r].snapA THEN merged ELSE row.answers,
     !.version = BumpedVersion(r, row),
     !.updated_at = IF req[r].now # req[r].snapU THEN req[r].now ELSE row.updated_at]

\* await db.commit(); await db.refresh(rsp) then reads the version it reports
UpdateCommit(r) ==
  /\ req[r].pc = "u_commit"
  /\ LET i == req[r].rid
         new == UpdatedRow(r, responses[i])
     IN /\ responses' = [responses EXCEPT ![i] = new]
        /\ req' = [req EXCEPT ![r] = [NoReq EXCEPT !.op = "update", !.pc = "done",
                      !.status = 200, !.sid = req[r].sid, !.rid = i,
                      !.body = req[r].body, !.version = new.version]]
  /\ UNCHANGED <<now, links, summaries, nextSummaryId, library>>

Update(r, bodies) == UpdateStart(r, bodies) \/ UpdateCommit(r)

\* get_survey_by_link_token up to the write: the status raised, 0 when none
FetchGate(path, t) ==
  IF LinkRejected(path) THEN 401
  ELSE IF t > SurveyDeadline(LinkSurvey(path)) THEN 410
  ELSE 0

\* get_survey_by_link_token: the gate, the deadline test, last_access_at,
\* and the envelope: the survey id and its blocks
Fetch(r) ==
  /\ MayStart(r)
  /\ \E path \in TokenInputs \ {MissingToken} :
       LET st == FetchGate(path, now) IN
       IF st # 0
       THEN /\ req' = [req EXCEPT ![r] = Refused(Answered("fetch", st, 0, 0), path, EmptyMap)]
            /\ UNCHANGED links
       ELSE /\ links' = [links EXCEPT ![path].last_access_at = now]
            /\ req' = [req EXCEPT ![r] = [Answered("fetch", 200, LinkSurvey(path), 0)
                           EXCEPT !.blocks = BuildBlocks(LinkSurvey(path))]]
  /\ UNCHANGED <<now, responses, summaries, nextSummaryId, library>>

\* survey_link_token.is_revoked is set by no handler of the service: a token
\* is revoked from outside, at any moment, and stays revoked
Revoke ==
  /\ \E t \in Tokens :
       /\ ~links[t].is_revoked
       /\ links' = [links EXCEPT ![t].is_revoked = TRUE]
  /\ UNCHANGED <<now, responses, summaries, nextSummaryId, req, library>>

\* -------------------------------------------------------------- Summary Job
UnknownBatch == NumRespondents + 7
BatchInputs == BatchIds \cup {UnknownBatch}

\* _batch_progress: the join counts the survey_response rows of the batch
BatchProgressUntilDeadline(b, t) ==
  LET expected == ExpectedRespondents(b)
      received == Cardinality(BatchResponses(b))
      all_responded == received >= expected
      deadline_passed == t > BatchDeadline(b)
  IN [expected |-> expected, received |-> received, allResponded |-> all_responded,
      deadlinePassed |-> deadline_passed, ready |-> all_responded /\ ~deadline_passed]
BatchProgressBoth(b, t) ==
  LET expected == ExpectedRespondents(b)
      received == Cardinality(BatchResponses(b))
      all_responded == received >= expected
      deadline_passed == t > BatchDeadline(b)
  IN [expected |-> expected, received |-> received, allResponded |-> all_responded,
      deadlinePassed |-> deadline_passed, ready |-> all_responded /\ deadline_passed]
BatchProgressCountingAll(b, t) ==
  LET expected == ExpectedRespondents(b)
      received == Cardinality(ResponseIds)
      all_responded == received >= expected
      deadline_passed == t > BatchDeadline(b)
  IN [expected |-> expected, received |-> received, allResponded |-> all_responded,
      deadlinePassed |-> deadline_passed, ready |-> all_responded \/ deadline_passed]
BatchProgress(b, t) ==
  LET expected == ExpectedRespondents(b)
      received == Cardinality(BatchResponses(b))
      all_responded == received >= expected
      deadline_passed == t > BatchDeadline(b)
  IN [expected |-> expected, received |-> received, allResponded |-> all_responded,
      deadlinePassed |-> deadline_passed, ready |-> all_responded \/ deadline_passed]

\* get_batch_progress
Progress(r) ==
  /\ MayStart(r)
  /\ \E b \in BatchInputs :
       IF b \notin BatchIds
       THEN Finish(r, "progress", 404)
       ELSE req' = [req EXCEPT ![r] = [NoReq EXCEPT !.op = "progress", !.pc = "done",
                      !.status = 200, !.bid = b, !.prog = BatchProgress(b, now)]]
  /\ UNCHANGED <<now, links, responses, summaries, nextSummaryId, library>>

\* db.scalar(select(ReviewSummary).where(batch_id == b)): the first row
FirstSummaryNone(b) == 0
FirstSummary(b) ==
  IF SummariesOf(b) = {} THEN 0
  ELSE (CHOOSE x \in SummariesOf(b) : \A y \in SummariesOf(b) : x.id <= y.id).id

SummaryIds == {x.id : x \in summaries}
SummaryRow(id) == CHOOSE x \in summaries : x.id = id

\* the insert of _ensure_summary_row, with created_at = updated_at = _now()
InsertSummary(b) ==
  /\ summaries' = summaries \cup {NewSummary(nextSummaryId, b, now)}
  /\ nextSummaryId' = nextSummaryId + 1

\* an UPDATE of one review_summary row
WriteSummary(id, row) == summaries' = (summaries \ {SummaryRow(id)}) \cup {row}

\* create_summary: _batch_progress, whose result is not looked at, and the
\* select of _ensure_summary_row
SummaryStart(r) ==
  /\ MayStart(r)
  /\ \E b \in BatchInputs :
       IF b \notin BatchIds
       THEN Finish(r, "summary", 404)
       ELSE req' = [req EXCEPT ![r] = [NoReq EXCEPT !.op = "summary", !.bid = b,
                      !.sumId = FirstSummary(b),
                      !.pc = IF FirstSummary(b) = 0 THEN "s_insert" ELSE "s_touch"]]
  /\ UNCHANGED <<now, links, responses, summaries, nextSummaryId, library>>

SummaryInsert(r) ==
  /\ req[r].pc = "s_insert"
  /\ InsertSummary(req[r].bid)
  /\ req' = [req EXCEPT ![r].pc = "s_touch", ![r].sumId = nextSummaryId]
  /\ UNCHANGED <<now, links, responses, library>>

\* rs.updated_at = _now(); commit; get_summary.  The UPDATE of a row that a
\* DELETE removed meanwhile matches nothing and the flush raises.
SummaryTouch(r) ==
  /\ req[r].pc = "s_touch"
  /\ IF req[r].sumId \notin SummaryIds
     THEN /\ Finish(r, "summary", 500)
          /\ UNCHANGED summaries
     ELSE /\ WriteSummary(req[r].sumId, [SummaryRow(req[r].sumId) EXCEPT !.updated_at = now])
          /\ req' = [req EXCEPT ![r] = [NoReq EXCEPT !.op = "summary", !.pc = "done",
                       !.status = 201, !.bid = req[r].bid, !.sumId = req[r].sumId]]
  /\ UNCHANGED <<now, links, responses, nextSummaryId, library>>

CreateSummary(r) == SummaryStart(r) \/ SummaryInsert(r) \/ SummaryTouch(r)

\* list_ready_summaries, for the one batch: progress and the handler's select
ReadyStart(r) ==
  /\ MayStart(r)
  /\ LET b == BatchId IN
     req' = [req EXCEPT ![r] =
       IF BatchProgress(b, now).ready /\ FirstSummary(b) = 0
       THEN [NoReq EXCEPT !.op = "ready", !.pc = "l_ensure", !.bid = b]
       ELSE [NoReq EXCEPT !.op = "ready", !.pc = "done", !.status = 200]]
  /\ UNCHANGED <<now, links, responses, summaries, nextSummaryId, library>>

\* the select of _ensure_summary_row
ReadyEnsure(r) ==
  /\ req[r].pc = "l_ensure"
  /\ req' = [req EXCEPT ![r] =
       IF FirstSummary(req[r].bid) = 0
       THEN [req[r] EXCEPT !.pc = "l_insert"]
       ELSE [NoReq EXCEPT !.op = "ready", !.pc = "done", !.status = 200]]
  /\ UNCHANGED <<now, links, responses, summaries, nextSummaryId, library>>

ReadyInsert(r) ==
  /\ req[r].pc = "l_insert"
  /\ InsertSummary(req[r].bid)
  /\ req' = [req EXCEPT ![r] = [NoReq EXCEPT !.op = "ready", !.pc = "done", !.status = 200]]
  /\ UNCHANGED <<now, links, responses, library>>

ListReady(r) == ReadyStart(r) \/ ReadyEnsure(r) \/ ReadyInsert(r)

\* the precondition of compute_summary
ComputeAdmitsAll(prog) == TRUE
ComputeAdmitsWhenAllResponded(prog) == prog.allResponded
ComputeAdmits(prog) == prog.ready

\* rs.status as the select of _ensure_summary_row loaded it ("none": no row)
LoadedStatus(id) == IF id = 0 THEN "none" ELSE SummaryRow(id).status

\* compute_summary: _batch_progress, the 409, the select of _ensure_summary_row
ComputeStart(r) ==
  /\ MayStart(r)
  /\ \E b \in BatchInputs :
       IF b \notin BatchIds
       THEN Finish(r, "compute", 404)
       ELSE IF ~ComputeAdmits(BatchProgress(b, now))
       THEN req' = [req EXCEPT ![r] = [Answered("compute", 409, 0, 0) EXCEPT !.bid = b]]
       ELSE req' = [req EXCEPT ![r] = [NoReq EXCEPT !.op = "compute", !.bid = b,
                      !.sumId = FirstSummary(b),
                      !.loaded = LoadedStatus(FirstSummary(b)),
                      !.pc = IF FirstSummary(b) = 0 THEN "k_insert" ELSE "k_run"]]
  /\ UNCHANGED <<now, links, responses, summaries, nextSummaryId, library>>

ComputeInsert(r) ==
  /\ req[r].pc = "k_insert"
  /\ InsertSummary(req[r].bid)
  /\ req' = [req EXCEPT ![r].pc = "k_run", ![r].sumId = nextSummaryId, ![r].loaded = "queued"]
  /\ UNCHANGED <<now, links, responses, library>>

\* the row as compute_summary marks it before aggregating
StartedRowKeepingStatus(row, t) == [row EXCEPT !.started_at = t, !.updated_at = t]
StartedRow(row, t) == [row EXCEPT !.status = "running", !.started_at = t, !.updated_at = t]

\* rs.status = "running"; rs.started_at = _now(); commit
ComputeRun(r) ==
  /\ req[r].pc = "k_run"
  /\ IF req[r].sumId \notin SummaryIds
     THEN /\ Finish(r, "compute", 500)
          /\ UNCHANGED summaries
     ELSE /\ WriteSummary(req[r].sumId, StartedRow(SummaryRow(req[r].sumId), now))
          /\ req' = [req EXCEPT ![r].pc = "k_aggregate"]
  /\ UNCHANGED <<now, links, responses, nextSummaryId, library>>

\* what the aggregation loop keeps of one answers dict for question q
\* the strings of the model that str.isdigit() accepts, and those that
\* str.strip() empties
DigitTexts == {"7", "12345"}
BlankTexts == {"", "     "}
CountsAsRating(v) == IsInstanceInt(v) \/ (v.kind = "str" /\ v.text \in DigitTexts)
CountsAsText(v) == v.kind = "str" /\ v.text \notin BlankTexts
Counted(q, v) == IF q.qtype = 1 THEN CountsAsRating(v) ELSE CountsAsText(v)

\* the stats of compute_summary over the responses of the batch's surveys
Aggregate(b) ==
  [qid \in QuestionIds |->
     LET q == library[CHOOSE i \in 1..Len(library) : library[i].qid = qid]
         n == Cardinality({i \in ResponseIds :
                /\ responses[i].survey_id \in BatchSurveys(b)
                /\ Counted(q, responses[i].answers[BlockId(qid)])})
     IN [n |-> n, sample |-> q.qtype # 1 /\ n > 0]]

\* the selects of surveys, answers and questions; a failure of one of them
\* leaves the handler with an unhandled exception
ComputeAggregate(r) ==
  /\ req[r].pc = "k_aggregate"
  /\ \E fail \in BOOLEAN :
       IF fail
       THEN Finish(r, "compute", 500)
       ELSE req' = [req EXCEPT ![r].pc = "k_finish", ![r].stats = Aggregate(req[r].bid)]
  /\ UNCHANGED <<now, links, responses, summaries, nextSummaryId, library>>

\* the row as compute_summary leaves it on success
FinishedRowWithoutOutput(row, stats, t) ==
  [row EXCEPT !.status = "succeeded", !.completed_at = t, !.updated_at = t]
FinishedRow(row, stats, t) ==
  [row EXCEPT !.summary_text = "text", !.stats = stats,
              !.status = "succeeded", !.completed_at = t, !.updated_at = t]

\* rs.summary_text, rs.stats, rs.status = "succeeded", rs.completed_at; commit
ComputeFinish(r) ==
  /\ req[r].pc = "k_finish"
  /\ IF req[r].sumId \notin SummaryIds
     THEN /\ Finish(r, "compute", 500)
          /\ UNCHANGED summaries
     ELSE /\ WriteSummary(req[r].sumId, FinishedRow(SummaryRow(req[r].sumId), req[r].stats, now))
          /\ req' = [req EXCEPT ![r] = [NoReq EXCEPT !.op = "compute", !.pc = "done",
                       !.status = 200, !.bid = req[r].bid, !.sumId = req[r].sumId]]
  /\ UNCHANGED <<now, links, responses, nextSummaryId, library>>

Compute(r) ==
  \/ ComputeStart(r)
  \/ ComputeInsert(r)
  \/ ComputeRun(r)
  \/ ComputeAggregate(r)
  \/ ComputeFinish(r)

SummaryIdInputs == 1..2
PatchStatuses == {"queued", "running", "succeeded", "failed", "archived"}

\* update_summary with a body that sets status alone
PatchSummary(r) ==
  /\ MayStart(r)
  /\ \E id \in SummaryIdInputs, st \in PatchStatuses :
       IF id \notin SummaryIds
       THEN Finish(r, "patch", 404) /\ UNCHANGED summaries
       ELSE /\ WriteSummary(id, [SummaryRow(id) EXCEPT !.status = st, !.updated_at = now])
            /\ Finish(r, "patch", 200)
  /\ UNCHANGED <<now, links, responses, nextSummaryId, library>>

\* delete_summary
DeleteSummary(r) ==
  /\ MayStart(r)
  /\ \E id \in SummaryIdInputs :
       IF id \notin SummaryIds
       THEN Finish(r, "delete", 404) /\ UNCHANGED summaries
       ELSE /\ summaries' = summaries \ {SummaryRow(id)}
            /\ Finish(r, "delete", 204)
  /\ UNCHANGED <<now, links, responses, nextSummaryId, library>>

\* update_question (PUT /questions/{id}) with a body that changes
\* question_type alone
UpdateQuestion ==
  /\ \E i \in 1..Len(library), qt \in {1, 2} :
       /\ library[i].qtype # qt
       /\ library' = [library EXCEPT ![i].qtype = qt]
  /\ UNCHANGED <<now, links, responses, summaries, nextSummaryId, req>>

\* ------------------------------------------------------------ specifications
\* the response lifecycle: Fetch, Create and Update under a running clock
NextStore ==
  \/ Tick
  \/ \E r \in Requests : Fetch(r)
  \/ \E r \in Requests : Create(r, CreateBodies)
  \/ \E r \in Requests : Update(r, UpdateBodies)

SpecStore == Init /\ [][NextStore]_vars

\* the batch tracker and the summary job, fed by plain Creates
NextSummary ==
  \/ Tick
  \/ \E r \in Requests : Create(r, PlainBodies)
  \/ \E r \in Requests : Progress(r)
  \/ \E r \in Requests : CreateSummary(r)
  \/ \E r \in Requests : ListReady(r)
  \/ \E r \in Requests : Compute(r)
  \/ \E r \in Requests : PatchSummary(r)
  \/ \E r \in Requests : DeleteSummary(r)

SpecSummary == Init /\ [][NextSummary]_vars

\* the summary job alone: batches filled by Creates, Progress and Compute
NextCompute ==
  \/ Tick
  \/ \E r \in Requests : Create(r, PlainBodies)
  \/ \E r \in Requests : Progress(r)
  \/ \E r \in Requests : Compute(r)

SpecCompute == Init /\ [][NextCompute]_vars

\* validation of required answers, at a clock that stands still
NextValidate ==
  \/ \E r \in Requests : Create(r, RequiredBodies)
  \/ \E r \in Requests : Update(r, RequiredDeltas)

SpecValidate == Init /\ [][NextValidate]_vars

\* the token gate under revocation, at a clock that stands still
NextGate ==
  \/ Revoke
  \/ \E r \in Requests : Fetch(r)
  \/ \E r \in Requests : Create(r, PlainBodies)
  \/ \E r \in Requests : Update(r, PlainDeltas)

SpecGate == Init /\ [][NextGate]_vars

\* validation of the type of a value, at a clock that stands still
NextTyped ==
  \/ \E r \in Requests : Create(r, TypedBodies)
  \/ \E r \in Requests : Update(r, TypedDeltas)

SpecTyped == Init /\ [][NextTyped]_vars

\* question libraries a deployment may hold: metadata that parses, that
\* fails at one field or another, rows stored in either order, and one
\* question that only the survey outside the batch carries
RatingMetas ==
  { NoMeta,
    [min |-> Num(3), max |-> Num(5), minLength |-> Unset],
    [min |-> Num(3), max |-> Bad, minLength |-> Unset],
    [min |-> Bad, max |-> Num(5), minLength |-> Unset] }
TextMetas ==
  { [min |-> Unset, max |-> Unset, minLength |-> Num(5)],
    [min |-> Unset, max |-> Bad, minLength |-> Num(5)],
    [min |-> Num(3), max |-> Unset, minLength |-> Bad],
    NoMeta }
RatingRow(m) == [qid |-> 1, qtype |-> 1, optional |-> FALSE, afields |-> m, assigned |-> SurveyIds]
TextRow(m) == [qid |-> 2, qtype |-> 2, optional |-> TRUE, afields |-> m, assigned |-> SurveyIds]
ExtraRow ==
  [qid |-> 3, qtype |-> 1, optional |-> TRUE, afields |-> NoMeta,
   assigned |-> SurveyIds \ BatchSurveys(BatchId)]
Libraries ==
  {<<RatingRow(rm), TextRow(tm), ExtraRow>> : rm \in RatingMetas, tm \in TextMetas}
    \cup {<<ExtraRow, TextRow(tm), RatingRow(rm)>> : rm \in RatingMetas, tm \in TextMetas}

InitBlocks ==
  /\ now = 0
  /\ links = [t \in Tokens |-> [is_revoked |-> FALSE, last_access_at |-> -1]]
  /\ responses = <<>>
  /\ summaries = {}
  /\ nextSummaryId = 1
  /\ req = [r \in Requests |-> NoReq]
  /\ library \in Libraries

\* block resolution over any library: Fetch returns the blocks of a survey
NextBlocks == \E r \in Requests : Fetch(r)

SpecBlocks == InitBlocks /\ [][NextBlocks]_vars

\* the aggregation over answers of every type, under a library whose
\* questions may be retyped, at a clock that stands still
NextAggregate ==
  \/ UpdateQuestion
  \/ \E r \in Requests : Create(r, AggregateBodies)
  \/ \E r \in Requests : Compute(r)

SpecAggregate == Init /\ [][NextAggregate]_vars

Next ==
  \/ NextStore \/ NextSummary \/ NextCompute \/ NextValidate \/ NextGate
  \/ NextTyped \/ NextBlocks \/ NextAggregate

Spec == Init /\ [][Next]_vars

\* ------------------------------------------------------------------ claims
Steps(r) == req'[r] # req[r]
Arrives(r, op) == req[r].pc = "idle" /\ req'[r].op = op
AcceptedUpdates(i) == {r \in Requests : req[r].op = "update" /\ req[r].status = 200 /\ req[r].rid = i}
PairHasResponse(s) == ResponsesOf(s, SurveyRespondent(s)) # {}

\* C1: in every reachable state, whatever the interleaving of concurrent
\* Creates, no two survey_response rows share (survey, respondent).
C1_OneResponsePerPair ==
  \A i, j \in ResponseIds :
    (/\ responses[i].survey_id = responses[j].survey_id
     /\ responses[i].respondent_user_id = responses[j].respondent_user_id) => i = j

\* two Creates of one pair both got past the existence check; the commit of
\* the second one was refused
C1_Witness ==
  \E r1, r2 \in Requests :
    /\ req[r1].op = "create" /\ req[r1].status = 201
    /\ req[r2].op = "create" /\ req[r2].status = 500
    /\ req[r2].sid = responses[req[r1].rid].survey_id

\* C2: after k accepted Updates of a Response its stored version is 1 + k,
\* and the versions returned to the callers are pairwise distinct.
C2_VersionCountsUpdates ==
  \A i \in ResponseIds :
    /\ responses[i].version = 1 + Cardinality(AcceptedUpdates(i))
    /\ \A r1, r2 \in AcceptedUpdates(i) : r1 # r2 => req[r1].version # req[r2].version

\* C3: every accepted Update applies its delta to the answers stored when it
\* commits, so the stored map is the deltas applied in commit order and no
\* key written by another accepted Update is lost.
C3_DeltaAppliedToStored ==
  [][\A r \in Requests :
       (req[r].pc = "u_commit" /\ Steps(r)) =>
          responses'[req[r].rid].answers = Merge(responses[req[r].rid].answers, req[r].body)]_vars

\* C5: a Response's version is 1 right after its Create, goes up by exactly
\* 1 with each accepted Update, never goes down, and no rejected Update
\* changes it.
C5_VersionDiscipline ==
  [][/\ \A i \in DOMAIN responses' : i \notin ResponseIds => responses'[i].version = 1
     /\ \A i \in ResponseIds : responses'[i].version >= responses[i].version
     /\ \A r \in Requests :
          /\ (req[r].pc = "u_commit" /\ Steps(r)) =>
               responses'[req[r].rid].version = responses[req[r].rid].version + 1
          /\ (Arrives(r, "update") /\ req'[r].pc = "done") => responses' = responses]_vars

\* C6: once the deadline of its survey has passed or it is finalized, every
\* Update that passes the token gate and selects the Response is answered
\* 409 and changes no row; the lock, once on, stays on.
C6_LockedUpdateRefused ==
  [][/\ \A r \in Requests :
          (/\ Arrives(r, "update")
           /\ req'[r].rid # 0
           /\ (now > SurveyDeadline(req'[r].sid) \/ responses[req'[r].rid].finalized))
          => (req'[r].pc = "done" /\ req'[r].status = 409 /\ responses' = responses)
     /\ \A i \in ResponseIds :
          (now > SurveyDeadline(responses[i].survey_id) \/ responses[i].finalized)
          => (now' > SurveyDeadline(responses'[i].survey_id) \/ responses'[i].finalized)]_vars

\* an Update of an existing Response, sent after the deadline, was refused
C6_Witness ==
  \E r \in Requests :
    /\ req[r].op = "update" /\ req[r].status = 409
    /\ req[r].rid \in ResponseIds
    /\ now > SurveyDeadline(req[r].sid)

\* C7 as claimed: a Create for a pair that already has a Response is
\* answered 409 and leaves the Response as it is.
C7_CreateOnExistingIs409 ==
  [][\A r \in Requests :
       /\ (Arrives(r, "create") /\ req'[r].sid # 0 /\ PairHasResponse(req'[r].sid))
            => (req'[r].pc = "c_check" /\ responses' = responses)
       /\ (req[r].pc = "c_check" /\ Steps(r) /\ PairHasResponse(req[r].sid))
            => (req'[r].status = 409 /\ responses' = responses)]_vars

\* C7 amended: a Create that passes the token gate for a pair that already
\* has a Response never creates a second Response and leaves the existing
\* one as it is; it is answered 409 unless the deadline test (410) or the
\* validation (422), which run before the existence check, refuse it first.
C7_CreateOnExistingRefused ==
  [][\A r \in Requests :
       /\ (Arrives(r, "create") /\ req'[r].sid # 0 /\ PairHasResponse(req'[r].sid))
            => (/\ req'[r].pc = "c_check" \/ req'[r].status \in {410, 422}
                /\ responses' = responses)
       /\ (req[r].pc = "c_check" /\ Steps(r) /\ PairHasResponse(req[r].sid))
            => (req'[r].status = 409 /\ responses' = responses)]_vars

\* a Create met the Response of its pair at the existence check
C7_Witness ==
  \E r \in Requests :
    /\ req[r].op = "create" /\ req[r].status = 409
    /\ PairHasResponse(req[r].sid)

\* C4: in every reachable state at most one review_summary row exists per
\* batch, whichever of the creating paths (Create, explicit creation, the
\* ready listing, Compute) run and however they interleave.
C4_OneSummaryPerBatch == \A b \in BatchIds : Cardinality(SummariesOf(b)) <= 1

InBookkeeping(r) == req[r].pc \in {"c_count", "c_exists", "c_insert"}
CreateReturns(r) == InBookkeeping(r) /\ req'[r].pc = "done"
CreateBatch(r) == SurveyBatchOf(req[r].sid)
\* the Create whose row was the N-th of its batch to be committed
Completing(r) ==
  /\ req[r].op = "create" /\ req[r].rid \in ResponseIds
  /\ CreateBatch(r) # 0
  /\ Cardinality({i \in BatchResponses(CreateBatch(r)) : i <= req[r].rid})
       = ExpectedRespondents(CreateBatch(r))
NotYetReady(b) == now <= BatchDeadline(b) /\ Cardinality(BatchResponses(b)) < ExpectedRespondents(b)
CreateInserts(r) == req[r].pc = "c_insert" /\ summaries' # summaries

C9_BookkeepingFailureSwallowed ==
  /\ [][\A r \in Requests :
          (InBookkeeping(r) /\ Steps(r) /\ req'[r].failed) =>
             /\ req'[r].pc = "done" /\ req'[r].status = 201 /\ req'[r].version = 1
             /\ responses' = responses /\ summaries' = summaries
             /\ req'[r].rid \in ResponseIds
             /\ responses[req'[r].rid].survey_id = req[r].sid]_vars
  /\ [](\A r \in Requests :
          (req[r].op = "create" /\ req[r].failed) =>
             /\ req[r].status = 201
             /\ req[r].rid \in ResponseIds
             /\ responses[req[r].rid].version = 1 \/ AcceptedUpdates(req[r].rid) # {})

\* a Create whose bookkeeping failed has returned
C9_Witness ==
  \E r \in Requests :
    /\ req[r].op = "create" /\ req[r].failed /\ Done(r)
    /\ req[r].rid \in ResponseIds

\* C10: a Compute on a batch that is not ready is answered 409 and goes no
\* further: it inserts no review_summary row and changes no existing one.
C10_ComputeNotReadyRefused ==
  [][\A r \in Requests :
       (/\ Arrives(r, "compute") /\ req'[r].bid # 0
        /\ ~BatchProgress(req'[r].bid, now).ready)
       => (/\ req'[r].pc = "done" /\ req'[r].status = 409
           /\ summaries' = summaries /\ nextSummaryId' = nextSummaryId)]_vars

\* a Compute was refused while the batch, which has a summary row, is not ready
C10_Witness ==
  \E r \in Requests :
    /\ req[r].op = "compute" /\ req[r].status = 409
    /\ ~BatchProgress(req[r].bid, now).ready
    /\ SummariesOf(req[r].bid) # {}

ComputeEnds(r) == req[r].pc \in {"k_aggregate", "k_finish"} /\ req'[r].pc = "done"
RowAfter(id) == {x \in summaries' : x.id = id}

\* C11: when an admitted Compute ends, the review_summary row it set to
\* running is succeeded or failed; when it ends on a failure of aggregation
\* or summarization the row is failed, with error populated and completed_at
\* set, and carries no output of the failed run.
C11_FailedComputeMarksFailed ==
  [][\A r \in Requests : ComputeEnds(r) =>
       \A x \in RowAfter(req[r].sumId) :
          /\ x.status # "running"
          /\ req'[r].status # 200 =>
               /\ x.status = "failed" /\ x.error # "none" /\ x.completed_at # -1
               /\ x.stats = SummaryRow(req[r].sumId).stats]_vars

SummaryStatuses == {"queued", "running", "succeeded", "failed"}

\* C12: in every reachable state, also after any PATCH of a summary, the
\* status of every review_summary row is queued, running, succeeded or failed.
C12_StatusInDomain == \A x \in summaries : x.status \in SummaryStatuses

ReadyNow(b) == BatchProgress(b, now).ready
ProgressOf(r, b) == req[r].op = "progress" /\ req[r].status = 200 /\ req[r].bid = b

\* C13: readiness of a batch is monotone: no step, of any operation or of
\* the clock, takes a ready batch back to not ready, and once a Progress
\* call has returned ready every later Progress call for the batch does.
C13_ReadyMonotone ==
  /\ [][\A b \in BatchIds : ReadyNow(b) => ReadyNow(b)']_vars
  /\ [](\A b \in BatchIds : \A r1, r2 \in Requests :
          (r1 < r2 /\ ProgressOf(r1, b) /\ ProgressOf(r2, b) /\ req[r1].prog.ready)
          => req[r2].prog.ready)

\* the batch was filled before its deadline, the deadline then passed and a
\* Progress call found the batch ready
C13_Witness ==
  \E b \in BatchIds : \E r \in Requests :
    /\ ProgressOf(r, b) /\ req[r].prog.ready
    /\ req[r].prog.allResponded /\ req[r].prog.deadlinePassed

ReceivedOf(b) == Cardinality({i \in ResponseIds : responses[i].survey_id \in BatchSurveys(b)})

\* C14: a Progress call for a known batch returns allResponded = (received
\* >= expected), deadlinePassed = (now > deadline) and ready = allResponded
\* or deadlinePassed, with received the number of survey_response rows whose
\* survey is of the batch, and writes nothing; for an unknown batch it is
\* answered 404.
C14_ProgressFormula ==
  [][\A r \in Requests : Arrives(r, "progress") =>
       /\ UNCHANGED <<now, links, responses, summaries, nextSummaryId>>
       /\ \/ req'[r].status = 404 /\ req'[r].bid \notin BatchIds
          \/ /\ req'[r].status = 200 /\ req'[r].bid \in BatchIds
             /\ LET b == req'[r].bid
                    p == req'[r].prog
                IN /\ p.expected = ExpectedRespondents(b)
                   /\ p.received = ReceivedOf(b)
                   /\ p.allResponded = (p.received >= p.expected)
                   /\ p.deadlinePassed = (now > BatchDeadline(b))
                   /\ p.ready = (p.allResponded \/ p.deadlinePassed)]_vars

\* a Progress call found every respondent's answer in before the deadline
C14_Witness ==
  \E b \in BatchIds : \E r \in Requests :
    /\ ProgressOf(r, b)
    /\ req[r].prog.allResponded /\ ~req[r].prog.deadlinePassed /\ req[r].prog.ready

SchemaOf(s) == BlockIdsOf(BuildBlocks(s))
Admitted(r, op) == Arrives(r, op) /\ req'[r].pc \in {"c_check", "u_commit"}

\* C15: every key of the answers of every stored Response is a block id of
\* its survey's schema, and no Create or Update whose body carries a key
\* outside the schema gets past validation.
C15_StoredKeysAreBlocks ==
  /\ [](\A i \in ResponseIds : KeysOf(responses[i].answers) \subseteq SchemaOf(responses[i].survey_id))
  /\ [][\A r \in Requests :
          (Admitted(r, "create") \/ Admitted(r, "update"))
          => KeysOf(req'[r].body) \subseteq SchemaOf(req'[r].sid)]_vars

\* a Response holds both blocks after a Create and an Update, and a request
\* carrying an unknown key was answered 422
C15_Witness ==
  /\ \E i \in ResponseIds : KeysOf(responses[i].answers) = SchemaOf(responses[i].survey_id)
  /\ \E r \in Requests : req[r].status = 422 /\ KeysOf(req[r].body) \ SchemaOf(req[r].sid) # {}

RequiredBlocks(s) == {BuildBlocks(s)[i].id : i \in {j \in 1..Len(BuildBlocks(s)) : ~BuildBlocks(s)[j].optional}}

\* C16: a Create gets past validation only if every non-optional block of
\* the survey has a non-null value in the submitted answers.
C16_RequiredBlocksAnswered ==
  [][\A r \in Requests : Admitted(r, "create") =>
       \A k \in RequiredBlocks(req'[r].sid) : req'[r].body[k] \notin {Absent, Null}]_vars

Fails(r) ==
  /\ Steps(r) /\ req'[r].pc = "done"
  /\ req'[r].op \in {"create", "update"} /\ req'[r].status \notin {200, 201}
Writes(r) == req[r].pc \in {"c_commit", "u_commit"} /\ responses' # responses

\* C17: a Create or Update that fails writes nothing: the survey_response
\* rows are as they were; and the body of every request that does write a
\* row passed validation whole, no key of it is one validation rejects.
C17_FailedRequestWritesNothing ==
  [][\A r \in Requests :
       /\ Fails(r) => (responses' = responses /\ summaries' = summaries)
       /\ Writes(r) => RejectedKeys(req[r].body, BuildBlocks(req[r].sid)) = {}]_vars

\* an Update whose delta has a valid first key and an invalid second one was
\* refused, and the Response it aimed at is as its Create left it
C17_Witness ==
  \E r \in Requests :
    /\ req[r].op = "update" /\ req[r].status = 422 /\ req[r].rid \in ResponseIds
    /\ req[r].body = Body(IntV(3), StrV("ok"), Absent)
    /\ responses[req[r].rid].answers = Body(IntV(7), Absent, Absent)
    /\ responses[req[r].rid].version = 1

\* C18: an accepted Update is a shallow merge into the stored answers: each
\* key of the delta takes the delta's value (null included, the key stays),
\* each other key keeps its stored value, and no key leaves the map.
C18_ShallowMerge ==
  [][\A r \in Requests : (req[r].pc = "u_commit" /\ Steps(r)) =>
       LET old == responses[req[r].rid].answers
           new == responses'[req[r].rid].answers
       IN \A k \in Keys :
            /\ req[r].body[k] # Absent => new[k] = req[r].body[k]
            /\ req[r].body[k] = Absent => new[k] = old[k]
            /\ old[k] # Absent => new[k] # Absent]_vars

LiveTokens == {t \in Tokens : ~links[t].is_revoked}
GateArrives(r) == Arrives(r, "fetch") \/ Arrives(r, "create") \/ Arrives(r, "update")

\* C19 as claimed: every Create and every Update that presents a valid
\* token with the id of a survey other than the token's is answered 403.
C19_MismatchedSurveyIs403 ==
  \A tok \in LiveTokens : \A sidIn \in SurveyIds \ {LinkSurvey(tok)} :
    \A ridIn \in ResponseIdInputs : \A body \in PlainBodies :
      /\ CreateGate(tok, sidIn, body, now) = 403
      /\ UpdateGate(tok, sidIn, ridIn, body, now) = 403

\* C19 amended: a Create or Update that presents a valid token with the
\* well-formed id of a survey other than the token's is answered 403,
\* whatever the clock, the body and the Responses stored; an Update whose
\* responseId is malformed is answered 400 before the survey is compared.
\* Neither answer changes a token or a Response.
C19_MismatchedSurveyRefused ==
  /\ [](\A tok \in LiveTokens : \A sidIn \in SurveyIds \ {LinkSurvey(tok)} :
          \A ridIn \in ResponseIdInputs : \A body \in PlainBodies :
            /\ CreateGate(tok, sidIn, body, now) = 403
            /\ UpdateGate(tok, sidIn, ridIn, body, now) = IF ridIn = BadId THEN 400 ELSE 403)
  /\ [][\A r \in Requests :
          (GateArrives(r) /\ req'[r].status \in {400, 403})
          => UNCHANGED <<links, responses, summaries>>]_vars

\* a request was answered 403 while the Response of a survey is stored
C19_Witness ==
  /\ responses # <<>>
  /\ \E r \in Requests : req[r].op \in {"create", "update"} /\ req[r].status = 403

BadToken(tok) == tok \notin Tokens \/ links[tok].is_revoked

\* C20: with a token that is missing, unknown or revoked, Fetch, Create and
\* Update are answered 401 whatever else the request carries, and the answer
\* changes no token and no Response; a revoked token stays revoked.
C20_BadTokenIs401 ==
  /\ [](\A tok \in TokenInputs : BadToken(tok) =>
          /\ tok # MissingToken => FetchGate(tok, now) = 401
          /\ \A sidIn \in SurveyIdInputs : \A ridIn \in ResponseIdInputs : \A body \in PlainBodies :
               /\ CreateGate(tok, sidIn, body, now) = 401
               /\ UpdateGate(tok, sidIn, ridIn, body, now) = 401)
  /\ [][/\ \A r \in Requests :
            (GateArrives(r) /\ req'[r].status = 401)
            => (BadToken(req'[r].tok) /\ UNCHANGED <<links, responses, summaries>>)
        /\ \A t \in Tokens : links[t].is_revoked => links'[t].is_revoked]_vars

\* a token that had created a Response was revoked, and a later request
\* with it was answered 401
C20_Witness ==
  \E r \in Requests :
    /\ req[r].status = 401 /\ req[r].tok \in Tokens /\ links[req[r].tok].is_revoked
    /\ ResponsesOf(LinkSurvey(req[r].tok), LinkRespondent(req[r].tok)) # {}

OwnSurveyInputs == {<<tok, LinkSurvey(tok)>> : tok \in LiveTokens}

\* C21: a Create that passes the token gate with the id of the token's
\* survey is refused 410 exactly when now > deadline at its deadline test,
\* whatever its body and whatever is stored (at now = deadline it is not);
\* the refusal writes no Response and no summary.
C21_CreateExpiredExactlyAfterDeadline ==
  /\ [](\A in \in OwnSurveyInputs : \A body \in CreateBodies :
          (CreateGate(in[1], in[2], body, now) = 410) <=> (now > SurveyDeadline(in[2])))
  /\ [][\A r \in Requests :
          (Arrives(r, "create") /\ req'[r].status = 410)
          => (now > SurveyDeadline(req'[r].sid) /\ UNCHANGED <<links, responses, summaries, nextSummaryId>>)]_vars

\* a Create was refused after the deadline, and a Response submitted at the
\* very instant of the deadline is stored
C21_Witness ==
  /\ \E r \in Requests : req[r].op = "create" /\ req[r].status = 410
  /\ \E i \in ResponseIds : responses[i].submitted_at = SurveyDeadline(responses[i].survey_id)

PairOf(tok) == ResponsesOf(LinkSurvey(tok), LinkRespondent(tok))

\* C22: an Update with a valid token, the id of the token's survey and a
\* well-formed responseId that is not the id of a Response of the token's
\* (survey, respondent) is answered 404, and the answer changes no Response.
C22_ForeignResponseIs404 ==
  /\ [](\A in \in OwnSurveyInputs : \A ridIn \in ResponseIdInputs \ {BadId} : \A body \in UpdateBodies :
          ridIn \notin PairOf(in[1]) => UpdateGate(in[1], in[2], ridIn, body, now) = 404)
  /\ [][\A r \in Requests :
          (Arrives(r, "update") /\ req'[r].status = 404)
          => UNCHANGED <<links, responses, summaries, nextSummaryId>>]_vars

\* an Update for a survey that has no Response was answered 404 while the
\* Response of another survey is stored
C22_Witness ==
  \E r \in Requests :
    /\ req[r].op = "update" /\ req[r].status = 404
    /\ responses # <<>>
    /\ \A i \in ResponseIds : responses[i].survey_id # req[r].sid

\* C23: the deadline is tested once, when the call starts: whatever the
\* clock says afterwards, an admitted Create goes on to its existence check
\* and its insert, and an admitted Update to its commit, which is answered 200.
C23_DeadlineCheckedOnce ==
  [][\A r \in Requests :
       /\ (req[r].pc = "c_check" /\ Steps(r))
            => req'[r].pc = (IF PairHasResponse(req[r].sid) THEN "done" ELSE "c_commit")
       /\ (req[r].pc = "c_commit" /\ Steps(r) /\ ~PairHasResponse(req[r].sid))
            => /\ Len(responses') = Len(responses) + 1
               /\ responses'[Len(responses')].submitted_at = req[r].now
               /\ req'[r].status \in {0, 201}
       /\ (req[r].pc = "u_commit" /\ Steps(r))
            => /\ req'[r].status = 200
               /\ responses'[req[r].rid].version = req[r].snapV + 1
               /\ responses'[req[r].rid].updated_at = req[r].now]_vars

\* a Create admitted at the deadline is about to insert its row after the
\* deadline has passed
C23_Witness ==
  \E r \in Requests :
    /\ req[r].pc = "c_commit"
    /\ req[r].now <= SurveyDeadline(req[r].sid) /\ now > SurveyDeadline(req[r].sid)
    /\ ~PairHasResponse(req[r].sid)

NewSummaries == {x \in summaries' : x.id \notin SummaryIds}

\* C24: a review_summary row is inserted for a batch only when the batch is
\* ready (every respondent answered, or the deadline passed), whichever
\* path inserts it.
C24_SummaryOnlyWhenReady ==
  [][\A x \in NewSummaries : ReadyNow(x.batch_id)]_vars

InsertPcs == {"c_insert", "s_insert", "k_insert", "l_insert"}
KeepsOutput(x, y) ==
  /\ y.status = x.status /\ y.summary_text = x.summary_text
  /\ y.stats = x.stats /\ y.error = x.error

\* C25: a creation attempt whose look-up finds a review_summary row of the
\* batch goes on without inserting: the later Create returns, the explicit
\* creation touches the row it found and leaves its status, text, stats
\* and error as they were, the Compute goes on to run on that row.
C25_CreationIdempotent ==
  [][\A r \in Requests :
       /\ (Arrives(r, "summary") /\ req'[r].bid \in BatchIds /\ SummariesOf(req'[r].bid) # {})
            => (/\ req'[r].pc = "s_touch" /\ summaries' = summaries
                /\ req'[r].sumId \in {x.id : x \in SummariesOf(req'[r].bid)})
       /\ (Arrives(r, "compute") /\ req'[r].pc # "done" /\ SummariesOf(req'[r].bid) # {})
            => (/\ req'[r].pc = "k_run" /\ summaries' = summaries
                /\ req'[r].sumId \in {x.id : x \in SummariesOf(req'[r].bid)})
       /\ (req[r].pc = "c_exists" /\ Steps(r) /\ SummariesOf(CreateBatch(r)) # {})
            => (req'[r].pc = "done" /\ summaries' = summaries)
       /\ (req[r].pc = "s_touch" /\ Steps(r))
            => /\ NewSummaries = {}
               /\ \A x \in summaries : \E y \in summaries' : y.id = x.id /\ KeepsOutput(x, y)]_vars

\* an explicit creation found the queued row a Create had inserted earlier
\* and touched it: one row, still queued
C25_Witness ==
  \E r \in Requests :
    /\ req[r].op = "summary" /\ req[r].status = 201
    /\ Cardinality(SummariesOf(req[r].bid)) = 1
    /\ \E x \in SummariesOf(req[r].bid) :
         /\ x.id = req[r].sumId /\ x.status = "queued"
         /\ x.created_at < x.updated_at

Late(b) == now > BatchDeadline(b)
EmptyStats == [q \in QuestionIds |-> [n |-> 0, sample |-> FALSE]]

\* C26: once the deadline has passed with no Response in the batch,
\* Progress answers ready by deadlinePassed alone, Compute is admitted,
\* inserts the queued row when there is none, and ends succeeded with a
\* count of 0 and no sample for every question.
C26_ComputeOnEmptyBatch ==
  [][\A r \in Requests :
       /\ (Arrives(r, "progress") /\ req'[r].status = 200
             /\ Late(req'[r].bid) /\ BatchResponses(req'[r].bid) = {})
            => (req'[r].prog.ready /\ req'[r].prog.deadlinePassed /\ ~req'[r].prog.allResponded)
       /\ (Arrives(r, "compute") /\ req'[r].bid \in BatchIds /\ Late(req'[r].bid))
            => req'[r].pc = (IF SummariesOf(req'[r].bid) = {} THEN "k_insert" ELSE "k_run")
       /\ (req[r].pc = "k_insert" /\ Steps(r))
            => \E x \in NewSummaries :
                 x.batch_id = req[r].bid /\ x.status = "queued" /\ req'[r].sumId = x.id
       /\ (req[r].pc = "k_finish" /\ Steps(r) /\ BatchResponses(req[r].bid) = {})
            => /\ req'[r].status = 200
               /\ \E x \in RowAfter(req[r].sumId) : x.status = "succeeded" /\ x.stats = EmptyStats]_vars

\* after the deadline of a batch without Responses, Progress said ready and
\* a Compute ended succeeded on empty aggregates
C26_Witness ==
  /\ responses = <<>>
  /\ \E r \in Requests : \E b \in BatchIds :
       ProgressOf(r, b) /\ req[r].prog.ready /\ ~req[r].prog.allResponded
  /\ \E r \in Requests :
       /\ req[r].op = "compute" /\ req[r].status = 200
       /\ \E x \in summaries : x.id = req[r].sumId /\ x.status = "succeeded" /\ x.stats = EmptyStats

GatePassed(s) == {r \in Requests : req[r].op = "create" /\ req[r].sid = s /\ req[r].status \notin {410, 422}}

\* C28: of the Creates that reach the existence check for one (survey,
\* respondent), once all have ended exactly one was answered 201, with
\* version 1, and every other 409, however their checks and commits
\* interleave.
C28_OneCreatedOthers409 ==
  \A s \in SurveyIds :
    (GatePassed(s) # {} /\ \A r \in GatePassed(s) : Done(r)) =>
       /\ Cardinality({r \in GatePassed(s) : req[r].status = 201 /\ req[r].version = 1}) = 1
       /\ \A r \in GatePassed(s) : req[r].status \in {201, 409}

StatusEdges ==
  { <<"queued", "running">>, <<"running", "succeeded">>, <<"running", "failed">>,
    <<"succeeded", "running">>, <<"failed", "running">> }
Finishing(r, id) == req[r].pc = "k_finish" /\ Steps(r) /\ req[r].sumId = id

\* C29: under Create and Compute a review_summary row is inserted queued,
\* is never removed, changes status only along queued -> running, running
\* -> succeeded, running -> failed and succeeded/failed -> running, and
\* turns succeeded or failed only at the end of a Compute that had set it
\* running.
C29_StatusEdges ==
  [][/\ \A y \in NewSummaries : y.status = "queued"
     /\ \A x \in summaries : \E y \in summaries' :
          /\ y.id = x.id
          /\ y.status = x.status \/ <<x.status, y.status>> \in StatusEdges
          /\ (y.status # x.status /\ y.status \in {"succeeded", "failed"})
               => \E r \in Requests : Finishing(r, x.id)
     /\ \A r \in Requests : (req[r].pc = "k_run" /\ Steps(r)) =>
          \E y \in RowAfter(req[r].sumId) : y.status = "running"]_vars

\* a row that had been completed is running again: a retry
C29_Witness ==
  \E x \in summaries : x.status = "running" /\ x.completed_at # -1

Terminal == {"succeeded", "failed"}

\* C30: a Compute that found its row succeeded or failed sets it running,
\* and when it ends the row carries the output of this run alone: on
\* success its stats, no error and completed_at of this end; on failure no
\* text and no stats of the earlier run.
C30_RetryOverwritesOutput ==
  [][\A r \in Requests : req[r].loaded \in Terminal =>
       /\ (req[r].pc = "k_run" /\ Steps(r)) =>
            \E y \in RowAfter(req[r].sumId) : y.status = "running"
       /\ ComputeEnds(r) =>
            \E y \in RowAfter(req[r].sumId) :
               /\ y.status \in Terminal /\ y.completed_at = now
               /\ req'[r].status = 200 => (y.stats = req[r].stats /\ y.error = "none")
               /\ req'[r].status # 200 =>
                    (y.status = "failed" /\ y.summary_text = "none" /\ y.stats = NoStats)]_vars

\* what the rule of C31 lets through for block b
RuleAccepts(b, val) ==
  IF val = Null THEN b.optional
  ELSE IF b.type = "rating" THEN val.kind = "int" /\ b.min <= val.num /\ val.num <= b.max
  ELSE val.kind = "str" /\ (b.minLength = -1 \/ Len(val.text) >= b.minLength)
BodyAccepted(s, body) ==
  \A k \in KeysOf(body) :
    k \in SchemaOf(s) /\ RuleAccepts(BlockById(BuildBlocks(s), k), body[k])
Validated(r) == Admitted(r, "create") \/ Admitted(r, "update") \/ (Steps(r) /\ req'[r].status = 422)

\* C31: a Create or an Update gets past validation exactly when every value
\* of its body is, for a rating block, an integer within min..max and, for
\* a text block, a string not shorter than minLength; a request refused by
\* validation is answered 422 and changes nothing.
C31_ValueTypeAndRange ==
  [][\A r \in Requests : Validated(r) =>
       /\ (req'[r].status # 422) <=> BodyAccepted(req'[r].sid, req'[r].body)
       /\ req'[r].status = 422 => UNCHANGED <<links, responses, summaries, nextSummaryId>>]_vars

HoldsValue(i, k) == responses[i].answers[k] \notin {Absent, Null}
NullDelta(k) == [j \in Keys |-> IF j = k THEN Null ELSE Absent]

\* C32: an Update whose delta sets a non-optional block to null is refused,
\* with 422 (required) while the Response is not locked, and a non-optional
\* block that holds a non-null value in a Response holds one after every step.
C32_RequiredValueStays ==
  /\ [](\A tok \in LiveTokens : \A i \in PairOf(tok) : \A k \in RequiredBlocks(LinkSurvey(tok)) :
          UpdateGate(tok, LinkSurvey(tok), i, NullDelta(k), now)
            = IF now > SurveyDeadline(LinkSurvey(tok)) THEN 409 ELSE 422)
  /\ [][\A i \in ResponseIds : \A k \in RequiredBlocks(responses[i].survey_id) :
          HoldsValue(i, k) => HoldsValue(i, k)']_vars

Expired(tok) == now > SurveyDeadline(LinkSurvey(tok))

\* C33: with a token that exists and is not revoked no Fetch, Create or
\* Update is ever answered 401, whatever the clock says; after the deadline
\* of the token's survey a Fetch and a Create for that survey are answered
\* 410 and an Update of the token's Response 409.
C33_TokenNeverExpires ==
  /\ [](\A tok \in LiveTokens :
          /\ FetchGate(tok, now) # 401
          /\ Expired(tok) => FetchGate(tok, now) = 410
          /\ \A body \in CreateBodies \cup UpdateBodies :
               /\ \A sidIn \in SurveyIdInputs :
                    /\ CreateGate(tok, sidIn, body, now) # 401
                    /\ \A ridIn \in ResponseIdInputs : UpdateGate(tok, sidIn, ridIn, body, now) # 401
               /\ Expired(tok) =>
                    /\ CreateGate(tok, LinkSurvey(tok), body, now) = 410
                    /\ \A i \in PairOf(tok) : UpdateGate(tok, LinkSurvey(tok), i, body, now) = 409)
  /\ [][\A r \in Requests :
          (GateArrives(r) /\ req'[r].status = 401) => req'[r].tok \notin LiveTokens]_vars

\* after the deadline, a Fetch with a valid token was answered 410 and an
\* Update of a stored Response 409
C33_Witness ==
  /\ now > Deadline
  /\ \E r \in Requests : req[r].op = "fetch" /\ req[r].status = 410
  /\ \E r \in Requests : req[r].op = "update" /\ req[r].status = 409 /\ req[r].rid \in ResponseIds

Fetched(r) == req[r].op = "fetch" /\ req[r].status = 200
RowsOf(s) == {i \in 1..Len(library) : s \in library[i].assigned}
ParseFailed(m) == m.min.st = "bad" \/ m.max.st = "bad" \/ m.minLength.st = "bad"
DefaultConstraints(b) ==
  IF b.type = "rating" THEN b.min = DefaultMin /\ b.max = DefaultMax ELSE b.minLength = -1

\* C34: when the metadata of a question fails to parse at any field, the
\* resolution still returns the block of the question and its constraints
\* are the defaults: min 1 and max 10 for a rating, no minLength for a
\* text, whatever parsed before the failure.
C34_ParseFailureGivesDefaults ==
  \A r \in Requests : Fetched(r) =>
    \A i \in RowsOf(req[r].sid) : ParseFailed(library[i].afields) =>
      \E j \in 1..Len(req[r].blocks) :
        /\ req[r].blocks[j].id = BlockId(library[i].qid)
        /\ DefaultConstraints(req[r].blocks[j])

LibraryIds == {library[i].qid : i \in 1..Len(library)}

LibraryRow(qid) == library[CHOOSE i \in 1..Len(library) : library[i].qid = qid]
HoldsCounted(i, qid) ==
  LET v == responses[i].answers[BlockId(qid)] IN
  IF LibraryRow(qid).qtype = 1 THEN v.kind = "int"
  ELSE v.kind = "str" /\ v.text \notin BlankTexts
Aggregates(r) == req[r].pc = "k_aggregate" /\ req'[r].pc = "k_finish"

\* C36: the count a Compute gives for a rating question is the number of
\* Responses of the batch's surveys that hold an integer for its block, for
\* a text question the number that hold a non-blank string; a null, an
\* absent key and a Response of a survey outside the batch count for nothing.
C36_CountsFromBatchResponses ==
  [][\A r \in Requests : Aggregates(r) =>
       \A qid \in QuestionIds :
         req'[r].stats[qid].n =
           Cardinality({i \in ResponseIds :
                          /\ SurveyBatchOf(responses[i].survey_id) = req[r].bid
                          /\ HoldsCounted(i, qid)})]_vars

Creates == {r \in Requests : req[r].op = "create"}
BatchFull(b) == Cardinality(BatchResponses(b)) >= ExpectedRespondents(b)

\* C37: whenever every Create has returned, none with a bookkeeping
\* failure, and the batch holds a Response of each of its respondents, a
\* review_summary row exists for the batch, however the Creates interleaved.
C37_CompletionNeverMissed ==
  \A b \in BatchIds :
    (BatchFull(b) /\ \A r \in Creates : Done(r) /\ ~req[r].failed) => SummariesOf(b) # {}

\* the two Creates that fill the batch ran side by side before the
\* deadline: each counted both Responses and each inserted a row
C37_Witness ==
  /\ now <= BatchDeadline(BatchId)
  /\ BatchFull(BatchId) /\ \A r \in Creates : Done(r) /\ ~req[r].failed
  /\ Cardinality(SummariesOf(BatchId)) = 2

\* C38: no Response is ever finalized: it is created with finalized false
\* and no step changes the flag, so an Update is refused 409 only after
\* the deadline of its survey.
C38_NeverFinalized ==
  /\ [](\A i \in ResponseIds : ~responses[i].finalized)
  /\ [][/\ \A i \in ResponseIds : responses'[i].finalized = responses[i].finalized
        /\ \A r \in Requests :
             (Arrives(r, "update") /\ req'[r].status = 409) => now > SurveyDeadline(req'[r].sid)]_vars

\* a Response was updated, then an Update of it was refused 409: the
\* deadline had passed, the flag is still off
C38_Witness ==
  \E r \in Requests :
    /\ req[r].op = "update" /\ req[r].status = 409 /\ req[r].rid \in ResponseIds
    /\ responses[req[r].rid].version > 1
    /\ ~responses[req[r].rid].finalized

TokensOf(s) == {t \in Tokens : LinkSurvey(t) = s}
SurveyResponses(s) == {i \in ResponseIds : responses[i].survey_id = s}

IsUpdate(r) == req[r].op = "update" \/ Arrives(r, "update")

\* C40: the commit of an accepted Update leaves submitted_at, finalized,
\* survey and respondent of its Response as they were, with updated_at not
\* earlier than submitted_at, adds no Response and changes no other one;
\* no step of an Update inserts or changes a review_summary row.
C40_UpdateFrame ==
  [][\A r \in Requests :
       /\ (req[r].pc = "u_commit" /\ Steps(r)) =>
            LET old == responses[req[r].rid]
                new == responses'[req[r].rid]
            IN /\ req'[r].status = 200
               /\ new.submitted_at = old.submitted_at /\ new.finalized = old.finalized
               /\ new.survey_id = old.survey_id
               /\ new.respondent_user_id = old.respondent_user_id
               /\ new.updated_at >= new.submitted_at
               /\ DOMAIN responses' = ResponseIds
               /\ \A j \in ResponseIds \ {req[r].rid} : responses'[j] = responses[j]
       /\ (IsUpdate(r) /\ Steps(r)) =>
            (summaries' = summaries /\ nextSummaryId' = nextSummaryId)]_vars

\* an Update was accepted after the batch had been filled and its summary
\* row queued: the other Response is at version 1, the row is as it was
C40_Witness ==
  \E r \in Requests :
    /\ req[r].op = "update" /\ req[r].status = 200
    /\ responses[req[r].rid].version = 2
    /\ \E j \in ResponseIds \ {req[r].rid} : responses[j].version = 1
    /\ \E x \in summaries : x.status = "queued" /\ x.updated_at = x.created_at
====
